---- MODULE Spec2Model ----
(***************************************************************************)
(* Model of python/console/survey_agents.py: the five declared agents      *)
(* (tools, hand-offs, output types), the entry point handle_survey_request *)
(* and, behind it, the agent runtime's run loop and the survey tool        *)
(* surface the agents call through the process-wide tools handle.          *)
(***************************************************************************)
EXTENDS Naturals, Sequences, FiniteSets

\* ------------------------------------------------------------------ bounds
NumRequests == 2      \* handle_survey_request calls in flight together
MaxSurveys == 1       \* surveys the store holds
MaxQuestions == 1     \* question ids the store ever hands out

Requests == 1..NumRequests
NoHandle == 0
\* Each caller passes a SurveyTools instance of its own.
ToolsArg(r) == r

\* ------------------------------------------------------- agent declarations
survey_triage == "Survey Triage"
survey_generator == "Survey Generator"
survey_editor == "Survey Editor"
survey_parser == "Survey Parser"
question_parser == "Question Parser"
Agents == {survey_triage, survey_generator, survey_editor, survey_parser, question_parser}
AllTools == {"list_surveys", "create_survey", "add_question",
             "edit_question", "delete_question"}

\* Faulty variant of Handoffs: the question parser hands back to the survey parser.
Handoffs_Back(a) ==
    CASE a = survey_triage -> {survey_generator, survey_editor, survey_parser}
      [] a = survey_parser -> {question_parser}
      [] a = question_parser -> {survey_parser}
      [] OTHER -> {}

\* handoffs= of each Agent(...) declaration.
Handoffs(a) ==
    CASE a = survey_triage -> {survey_generator, survey_editor, survey_parser}
      [] a = survey_parser -> {question_parser}
      [] OTHER -> {}

\* Faulty variant of AgentTools: the generator is given create_survey.
AgentTools_GeneratorSaves(a) ==
    CASE a = survey_triage -> {"list_surveys"}
      [] a = survey_parser -> {"create_survey", "add_question"}
      [] a = survey_editor -> {"edit_question", "delete_question"}
      [] a = survey_generator -> {"create_survey"}
      [] OTHER -> {}

\* tools= of each Agent(...) declaration.
AgentTools(a) ==
    CASE a = survey_triage -> {"list_surveys"}
      [] a = survey_parser -> {"create_survey", "add_question"}
      [] a = survey_editor -> {"edit_question", "delete_question"}
      [] OTHER -> {}

\* output_type= of each Agent(...) declaration; plain text when none is given.
OutputType(a) ==
    CASE a = survey_parser -> "SurveyParserOutput"
      [] a = question_parser -> "QuestionParserOutput"
      [] OTHER -> "str"

\* The agent a run starts on: Runner.run(survey_triage, user_input).
StartAgent == survey_triage

\* ------------------------------------------------------------- tool surface
\* QuestionType: the closed enumeration; the choice types need options.
QuestionTypes == {"RADIO", "MULTIPLE_CHOICE", "NUMERIC"}
ChoiceTypes == {"RADIO", "MULTIPLE_CHOICE"}

\* Arguments the runtime may pass to the tools.
SurveyIds == 1..(MaxSurveys + 1)
QuestionIds == 1..(MaxQuestions + 1)
SurveyNames == {"Customer Satisfaction", ""}
QuestionArgs ==
    { [text |-> "Did you find our website easy to navigate?",
       question_type |-> "RADIO", options |-> <<"Yes", "No">>],
      [text |-> "Did you find our website easy to navigate?",
       question_type |-> "RADIO", options |-> <<>>],
      [text |-> "How many hours per week do you use our platform?",
       question_type |-> "SLIDER", options |-> <<>>] }
FieldUpdates ==
    { [field |-> "question_type", value |-> "NUMERIC"],
      [field |-> "question_type", value |-> "SLIDER"] }

Ok(msg) == [ok |-> TRUE, msg |-> msg]
Fail(msg) == [ok |-> FALSE, msg |-> msg]

HasSurvey(st, sid) == sid \in 1..Len(st.surveys)
QuestionIndex(st, sid, qid) ==
    {i \in 1..Len(st.surveys[sid].questions) :
        st.surveys[sid].questions[i].id = qid}
HasQuestion(st, sid, qid) == QuestionIndex(st, sid, qid) # {}
RemoveAt(seq, i) == SubSeq(seq, 1, i - 1) \o SubSeq(seq, i + 1, Len(seq))

\* list_surveys: no failure, no mutation.
list_surveys(st) == [store |-> st, result |-> Ok("surveys listed")]

\* create_survey: "invalid input" if the name is empty.
create_survey(st, name) ==
    IF name = ""
    THEN [store |-> st, result |-> Fail("invalid input")]
    ELSE [store |-> [st EXCEPT !.surveys =
                        Append(@, [id |-> Len(st.surveys) + 1, name |-> name,
                                   questions |-> <<>>])],
          result |-> Ok("survey created")]

\* add_question: appended to the survey in call order under a fresh id.
add_question(st, sid, q) ==
    IF ~HasSurvey(st, sid)
    THEN [store |-> st, result |-> Fail("survey not found")]
    ELSE IF q.question_type \notin QuestionTypes
    THEN [store |-> st, result |-> Fail("invalid question_type")]
    ELSE IF q.question_type \in ChoiceTypes /\ q.options = <<>>
    THEN [store |-> st, result |-> Fail("missing options for choice type")]
    ELSE [store |-> [st EXCEPT !.surveys[sid].questions =
                        Append(@, [id |-> st.next_id, text |-> q.text,
                                   question_type |-> q.question_type,
                                   options |-> q.options]),
                     !.next_id = @ + 1],
          result |-> Ok("question added")]

ApplyUpdate(q, upd) ==
    IF upd.field = "text" THEN [q EXCEPT !.text = upd.value]
    ELSE [q EXCEPT !.question_type = upd.value,
                   !.options = IF upd.value \in ChoiceTypes THEN @ ELSE <<>>]
ValidUpdate(q, upd) ==
    /\ upd.field = "question_type" =>
         /\ upd.value \in QuestionTypes
         /\ upd.value \in ChoiceTypes => q.options # <<>>
    /\ upd.field = "text" => upd.value # ""

\* Faulty variant of edit_question: a missing question is created by the edit (upsert).
edit_question_upsert(st, sid, qid, upd) ==
    IF ~HasSurvey(st, sid)
    THEN [store |-> st, result |-> Fail("survey not found")]
    ELSE IF ~HasQuestion(st, sid, qid)
    THEN [store |-> [st EXCEPT !.surveys[sid].questions =
                        Append(@, [id |-> qid, text |-> upd.value,
                                   question_type |-> "NUMERIC",
                                   options |-> <<>>])],
          result |-> Ok("question updated")]
    ELSE LET i == CHOOSE i \in QuestionIndex(st, sid, qid) : TRUE
         IN  [store |-> [st EXCEPT !.surveys[sid].questions[i] = ApplyUpdate(@, upd)],
              result |-> Ok("question updated")]

\* edit_question
edit_question(st, sid, qid, upd) ==
    IF ~HasSurvey(st, sid)
    THEN [store |-> st, result |-> Fail("survey not found")]
    ELSE IF ~HasQuestion(st, sid, qid)
    THEN [store |-> st, result |-> Fail("question not found")]
    ELSE LET i == CHOOSE i \in QuestionIndex(st, sid, qid) : TRUE
         IN  IF ~ValidUpdate(st.surveys[sid].questions[i], upd)
             THEN [store |-> st, result |-> Fail("invalid field value")]
             ELSE [store |-> [st EXCEPT !.surveys[sid].questions[i] = ApplyUpdate(@, upd)],
                   result |-> Ok("question updated")]

\* Faulty variant of delete_question: deleting a missing question succeeds silently and
\* drops the survey's last question.
delete_question_lenient(st, sid, qid) ==
    IF ~HasSurvey(st, sid)
    THEN [store |-> st, result |-> Fail("survey not found")]
    ELSE IF ~HasQuestion(st, sid, qid)
    THEN [store |-> [st EXCEPT !.surveys[sid].questions =
                        IF @ = <<>> THEN @ ELSE SubSeq(@, 1, Len(@) - 1)],
          result |-> Ok("question deleted")]
    ELSE LET i == CHOOSE i \in QuestionIndex(st, sid, qid) : TRUE
         IN  [store |-> [st EXCEPT !.surveys[sid].questions = RemoveAt(@, i)],
              result |-> Ok("question deleted")]

\* delete_question
delete_question(st, sid, qid) ==
    IF ~HasSurvey(st, sid)
    THEN [store |-> st, result |-> Fail("survey not found")]
    ELSE IF ~HasQuestion(st, sid, qid)
    THEN [store |-> st, result |-> Fail("question not found")]
    ELSE LET i == CHOOSE i \in QuestionIndex(st, sid, qid) : TRUE
         IN  [store |-> [st EXCEPT !.surveys[sid].questions = RemoveAt(@, i)],
              result |-> Ok("question deleted")]

\* ------------------------------------------------------------------- state
VARIABLES
    tools,        \* the process-wide handle set_tools installs
    store,        \* the survey store behind the tools
    pc,           \* each request's position in handle_survey_request
    path,         \* the agents the run in progress has been on, oldest first
    run,          \* each request's Runner.run invocation
    log,          \* the calls each request has made, in order
    raised,       \* what was raised inside each request's try block
    result,       \* how each request completed
    lastCall,     \* the tool call made by the latest step, if it made one
    deleted       \* the <<survey_id, question_id>> pairs deleted so far

vars == <<tools, store, pc, path, run, log, raised, result, lastCall,
          deleted>>

Nothing == [type |-> "none", data |-> ""]
NoCall == [req |-> 0, agent |-> "", tool |-> "", handle |-> NoHandle,
           result |-> Ok(""), hadSurvey |-> FALSE, hadQuestion |-> FALSE,
           wasDeleted |-> FALSE, changed |-> FALSE]

\* What set_tools and Runner.run can raise.  RuntimeError is an Exception;
\* asyncio.CancelledError derives from BaseException only and reaches the
\* coroutine at its await.
SetToolsFailures == {[type |-> "RuntimeError", data |-> "tools unavailable"]}
RunFailures == {[type |-> "RuntimeError", data |-> "model call failed"],
                [type |-> "CancelledError", data |-> ""]}
ExceptionClasses == {"RuntimeError"}

\* What the model's final answer carries.
FinalData == {"answer"}

Agent(r) == path[r][Len(path[r])]
Finished(r) == pc[r] \in {"returned", "raised"}

Init ==
    /\ tools = NoHandle
    /\ store = [surveys |-> <<>>, next_id |-> 1]
    /\ pc = [r \in Requests |-> "start"]
    /\ path = [r \in Requests |-> <<>>]
    /\ run = [r \in Requests |-> [status |-> "not started", output |-> Nothing]]
    /\ log = [r \in Requests |-> <<>>]
    /\ raised = [r \in Requests |-> Nothing]
    /\ result = [r \in Requests |-> [how |-> "pending", value |-> Nothing]]
    /\ lastCall = NoCall
    /\ deleted = {}

\* ------------------------------------------------------------- entry point
\* except Exception as e
Catches(exc) == exc.type \in ExceptionClasses

\* Faulty variant of ErrorString: the marker is left out.
ErrorString_NoMarker(exc) == [type |-> "str", data |-> exc.data]
\* return f"Error handling request: {e}"
ErrorString(exc) == [type |-> "str", data |-> "Error handling request: " \o exc.data]

\* return result.final_output
ReturnValue(output) == output

\* The try block left by exception exc: caught and returned, or propagated.
Leave(r, exc) ==
    /\ raised' = [raised EXCEPT ![r] = exc]
    /\ IF Catches(exc)
       THEN /\ pc' = [pc EXCEPT ![r] = "returned"]
            /\ result' = [result EXCEPT ![r] =
                             [how |-> "return", value |-> ErrorString(exc)]]
       ELSE /\ pc' = [pc EXCEPT ![r] = "raised"]
            /\ result' = [result EXCEPT ![r] = [how |-> "raise", value |-> exc]]

\* Runner.run is over: its agent loop's state is gone.
EndRun(r) == path' = [path EXCEPT ![r] = <<>>]

\* set_tools(tools): the handle becomes the process-wide one.
set_tools(r) == tools' = ToolsArg(r)

\* The call up to its first suspension: set_tools(tools), then
\* await Runner.run(survey_triage, user_input) starts the run on the triage
\* agent and suspends the request on it.
handle_survey_request(r) ==
    /\ pc[r] = "start"
    /\ set_tools(r)
    /\ log' = [log EXCEPT ![r] = @ \o <<"set_tools", "Runner.run">>]
    /\ run' = [run EXCEPT ![r].status = "pending"]
    /\ path' = [path EXCEPT ![r] = <<StartAgent>>]
    /\ pc' = [pc EXCEPT ![r] = "awaiting"]
    /\ lastCall' = NoCall
    /\ UNCHANGED <<store, raised, result, deleted>>

\* Faulty variant of SetToolsRaises: the failure is swallowed and the run is invoked.
SetToolsRaises_Swallowed(r) ==
    /\ pc[r] = "start"
    /\ \E exc \in SetToolsFailures :
         raised' = [raised EXCEPT ![r] = exc]
    /\ log' = [log EXCEPT ![r] =
                  @ \o <<"set_tools", "set_tools raised", "Runner.run">>]
    /\ run' = [run EXCEPT ![r].status = "pending"]
    /\ path' = [path EXCEPT ![r] = <<StartAgent>>]
    /\ pc' = [pc EXCEPT ![r] = "awaiting"]
    /\ lastCall' = NoCall
    /\ UNCHANGED <<tools, store, result, deleted>>

\* set_tools(tools) raises: the except clause is entered before Runner.run
\* is reached.
SetToolsRaises(r) ==
    /\ pc[r] = "start"
    /\ \E exc \in SetToolsFailures :
         /\ log' = [log EXCEPT ![r] = @ \o <<"set_tools", "set_tools raised">>]
         /\ Leave(r, exc)
    /\ lastCall' = NoCall
    /\ UNCHANGED <<tools, store, path, run, deleted>>

\* ----------------------------------------------------------- the agent run
\* The run is on an agent that declares the tool.
MayCall(r, tool) ==
    /\ pc[r] = "awaiting"
    /\ tool \in AgentTools(Agent(r))

\* A tool function runs against whatever handle is installed at that moment.
Invoke(r, tool, sid, qid, out) ==
    /\ store' = out.store
    /\ lastCall' = [req |-> r, agent |-> Agent(r), tool |-> tool,
                    handle |-> tools, result |-> out.result,
                    hadSurvey |-> HasSurvey(store, sid),
                    hadQuestion |-> HasSurvey(store, sid)
                                      /\ HasQuestion(store, sid, qid),
                    wasDeleted |-> <<sid, qid>> \in deleted,
                    changed |-> out.store # store]
    /\ UNCHANGED <<tools, pc, path, run, log, raised, result>>

CallListSurveys(r) ==
    /\ MayCall(r, "list_surveys")
    /\ Invoke(r, "list_surveys", 0, 0, list_surveys(store))
    /\ UNCHANGED deleted

CallCreateSurvey(r) ==
    /\ MayCall(r, "create_survey")
    /\ Len(store.surveys) < MaxSurveys
    /\ \E name \in SurveyNames :
         Invoke(r, "create_survey", 0, 0, create_survey(store, name))
    /\ UNCHANGED deleted

CallAddQuestion(r) ==
    /\ MayCall(r, "add_question")
    /\ \E sid \in SurveyIds, q \in QuestionArgs :
         /\ store.next_id <= MaxQuestions
         /\ Invoke(r, "add_question", sid, 0, add_question(store, sid, q))
    /\ UNCHANGED deleted

CallEditQuestion(r) ==
    /\ MayCall(r, "edit_question")
    /\ \E sid \in SurveyIds, qid \in QuestionIds, upd \in FieldUpdates :
         Invoke(r, "edit_question", sid, qid,
                edit_question(store, sid, qid, upd))
    /\ UNCHANGED deleted

CallDeleteQuestion(r) ==
    /\ MayCall(r, "delete_question")
    /\ \E sid \in SurveyIds, qid \in QuestionIds :
         LET out == delete_question(store, sid, qid)
         IN  /\ Invoke(r, "delete_question", sid, qid, out)
             /\ deleted' = IF out.result.ok THEN deleted \cup {<<sid, qid>>}
                           ELSE deleted

\* The active agent hands the run off to an agent it declares.
Handoff(r) ==
    /\ pc[r] = "awaiting"
    /\ \E b \in Handoffs(Agent(r)) :
         path' = [path EXCEPT ![r] = Append(@, b)]
    /\ lastCall' = NoCall
    /\ UNCHANGED <<tools, store, pc, run, log, raised, result,
                   deleted>>

\* The active agent produces its final output, of its declared output type;
\* Runner.run returns and the request returns result.final_output.
RunReturns(r) ==
    /\ pc[r] = "awaiting"
    /\ \E d \in FinalData :
         LET output == [type |-> OutputType(Agent(r)), data |-> d]
         IN  /\ run' = [run EXCEPT ![r] = [status |-> "returned",
                                            output |-> output]]
             /\ result' = [result EXCEPT ![r] =
                              [how |-> "return", value |-> ReturnValue(output)]]
    /\ pc' = [pc EXCEPT ![r] = "returned"]
    /\ EndRun(r)
    /\ lastCall' = NoCall
    /\ UNCHANGED <<tools, store, log, raised, deleted>>

\* Faulty variant of RunRaises: a run that failed is invoked again.
RunRaises_Retry(r) ==
    /\ pc[r] = "awaiting"
    /\ Len(log[r]) < 4
    /\ \E exc \in RunFailures :
         /\ raised' = [raised EXCEPT ![r] = exc]
         /\ log' = [log EXCEPT ![r] = Append(@, "Runner.run")]
    /\ path' = [path EXCEPT ![r] = <<StartAgent>>]
    /\ lastCall' = NoCall
    /\ UNCHANGED <<tools, store, pc, run, result, deleted>>

\* Runner.run raises: the except clause decides how the request completes.
RunRaises(r) ==
    /\ pc[r] = "awaiting"
    /\ \E exc \in RunFailures :
         /\ run' = [run EXCEPT ![r] = [status |-> "raised", output |-> Nothing]]
         /\ Leave(r, exc)
    /\ EndRun(r)
    /\ lastCall' = NoCall
    /\ UNCHANGED <<tools, store, log, deleted>>

Next ==
    \E r \in Requests :
        \/ handle_survey_request(r)
        \/ SetToolsRaises(r)
        \/ CallListSurveys(r)
        \/ CallCreateSurvey(r)
        \/ CallAddQuestion(r)
        \/ CallEditQuestion(r)
        \/ CallDeleteQuestion(r)
        \/ Handoff(r)
        \/ RunReturns(r)
        \/ RunRaises(r)

Spec == Init /\ [][Next]_vars

\* ------------------------------------------------------------------ claims
Count(seq, x) == Cardinality({i \in 1..Len(seq) : seq[i] = x})
Range(seq) == {seq[i] : i \in 1..Len(seq)}
Staged == <<"set_tools", "Runner.run">>
ErrorMarker == "Error handling request: "

\* The agents reachable from a set by declared hand-offs.
HandoffStep(S) == S \cup UNION {Handoffs(a) : a \in S}
ReachableFrom(a) ==
    HandoffStep(HandoffStep(HandoffStep(HandoffStep(HandoffStep(Handoffs(a))))))

\* C1 as stated: handle_survey_request never raises; whatever set_tools or
\* Runner.run raises, the request returns the error marker followed by the
\* failure text.
C1_NeverRaises ==
    \A r \in Requests :
        /\ pc[r] # "raised"
        /\ raised[r] # Nothing =>
             result[r] = [how |-> "return",
                          value |-> [type |-> "str",
                                     data |-> ErrorMarker \o raised[r].data]]

\* C1 as amended: a failure of set_tools or Runner.run that is an Exception is
\* returned as the error marker followed by the failure text; the request
\* raises only what is not an Exception (asyncio.CancelledError), unchanged.
C1_ExceptionsReturned ==
    \A r \in Requests :
        /\ (raised[r] # Nothing /\ raised[r].type = "RuntimeError") =>
             /\ pc[r] = "returned"
             /\ result[r] = [how |-> "return",
                             value |-> [type |-> "str",
                                        data |-> ErrorMarker \o raised[r].data]]
        /\ pc[r] = "raised" =>
             /\ raised[r].type = "CancelledError"
             /\ result[r] = [how |-> "raise", value |-> raised[r]]

\* C1 reached: an Exception raised by Runner.run and one raised by
\* set_tools were both returned.
C1_Witness ==
    /\ \E r \in Requests :
         /\ run[r].status = "raised"
         /\ raised[r].type = "RuntimeError"
         /\ pc[r] = "returned"
    /\ \E r \in Requests :
         /\ "set_tools raised" \in Range(log[r])
         /\ pc[r] = "returned"

\* C2: every tool call of a request's run sees the tools handle that this
\* request installed with set_tools.
C2_NoRace ==
    lastCall.req # 0 => lastCall.handle = ToolsArg(lastCall.req)

\* C3: each request executes set_tools exactly once and before Runner.run is
\* invoked, no tool call of a request precedes its set_tools, and Runner.run
\* is never invoked when set_tools failed.
C3_SetToolsOnceBeforeRun ==
    \A r \in Requests :
        /\ pc[r] # "start" =>
             Count(log[r], "set_tools") = 1 /\ log[r][1] = "set_tools"
        /\ pc[r] = "start" => log[r] = <<>>
        /\ "Runner.run" \in Range(log[r]) => log[r] = Staged
        /\ "set_tools raised" \in Range(log[r]) => run[r].status = "not started"
        /\ lastCall.req = r => log[r] = Staged

\* C3 reached: a tool call of a staged request, and a request whose
\* set_tools failed.
C3_Witness ==
    \E r, q \in Requests :
        /\ lastCall.req = r
        /\ log[r] = Staged
        /\ "set_tools raised" \in Range(log[q])
        /\ Finished(q)

\* C4: when the run does not raise, the request returns the run's final
\* output unchanged and that value is text, whichever agent the run ended on.
C4_ReturnsText ==
    \A r \in Requests :
        run[r].status = "returned" =>
            /\ result[r] = [how |-> "return", value |-> run[r].output]
            /\ result[r].value.type = "str"

C6_EditMissingQuestion ==
    (lastCall.tool = "edit_question" /\ lastCall.hadSurvey
        /\ ~lastCall.hadQuestion) =>
        /\ lastCall.result = Fail("question not found")
        /\ ~lastCall.changed

\* C6 reached: edit_question on a missing question of an existing survey,
\* with a question in the store to lose.
C6_Witness ==
    /\ lastCall.tool = "edit_question"
    /\ lastCall.hadSurvey
    /\ ~lastCall.hadQuestion
    /\ \E i \in 1..Len(store.surveys) : store.surveys[i].questions # <<>>

\* C7: the hand-off relation is exactly triage -> {generator, editor, parser}
\* and parser -> question parser; it has no cycle; every run starts on the
\* triage agent, follows declared hand-offs, is never twice on an agent and
\* makes at most two hand-offs.
C7_HandoffGraph ==
    /\ {e \in Agents \X Agents : e[2] \in Handoffs(e[1])} =
         {<<"Survey Triage", "Survey Generator">>,
          <<"Survey Triage", "Survey Editor">>,
          <<"Survey Triage", "Survey Parser">>,
          <<"Survey Parser", "Question Parser">>}
    /\ \A a \in Agents : a \notin ReachableFrom(a)
    /\ \A r \in Requests :
         pc[r] = "awaiting" =>
            /\ path[r][1] = "Survey Triage"
            /\ Len(path[r]) <= 3
            /\ \A i, j \in 1..Len(path[r]) : path[r][i] = path[r][j] => i = j
            /\ \A i \in 1..(Len(path[r]) - 1) :
                 path[r][i + 1] \in Handoffs(path[r][i])

\* C7 reached: a run that made both hand-offs.
C7_Witness ==
    \E r \in Requests :
        path[r] = <<"Survey Triage", "Survey Parser", "Question Parser">>

\* C8: a tool is called only under the agent that declares it; the generator
\* and the question parser call none; no call made by a run on the triage
\* agent or routed to the generator changes the store; and all five tools
\* are reachable from the triage agent.
C8_ToolsUnderDeclaringAgent ==
    /\ lastCall.req # 0 =>
         /\ lastCall.tool = "list_surveys" => lastCall.agent = "Survey Triage"
         /\ lastCall.tool \in {"create_survey", "add_question"} =>
              lastCall.agent = "Survey Parser"
         /\ lastCall.tool \in {"edit_question", "delete_question"} =>
              lastCall.agent = "Survey Editor"
         /\ lastCall.tool \in AllTools
         /\ lastCall.agent \notin {"Survey Generator", "Question Parser"}
         /\ (lastCall.agent = "Survey Triage"
               \/ "Survey Generator" \in Range(path[lastCall.req])) =>
              ~lastCall.changed
    /\ UNION {AgentTools(a) : a \in {StartAgent} \cup ReachableFrom(StartAgent)}
         = AllTools

\* C8 reached: the survey parser changed the store while another run is
\* on the generator.
C8_Witness ==
    \E r, q \in Requests :
        /\ lastCall.req = r
        /\ lastCall.agent = "Survey Parser"
        /\ lastCall.changed
        /\ "Survey Generator" \in Range(path[q])

\* C9: after a hand-off to the question parser the run comes back to the
\* survey parser, so a run that reached the question parser ends on the
\* survey parser with a SurveyParserOutput.
C9_RunEndsOnSurveyParser ==
    \A r \in Requests :
        run[r].status = "returned" =>
            run[r].output.type # "QuestionParserOutput"

====
